---------------------------- MODULE Spec2Model ----------------------------
(***************************************************************************)
(* A model of runml.c, the ml-to-C transpiler: the two passes over the     *)
(* source file, the symbol tables, and the string functions they rest on.  *)
(* A C string is a sequence of one-character strings; a source file is a   *)
(* sequence of lines with the line terminator already stripped.            *)
(***************************************************************************)
EXTENDS Integers, Sequences, FiniteSets, TLC

(***************************************************************************)
(* Program constants (runml.c lines 13-17).                                *)
(***************************************************************************)
MAX_IDENTIFIER_LENGTH == 12
MAX_IDENTIFIERS == 50
MAX_FUNCTIONS == 50
MAX_GLOBAL_VARS == 50

(***************************************************************************)
(* <ctype.h> in the C locale, and the C string primitives the code uses.   *)
(***************************************************************************)
Lower == {"a","b","c","d","e","f","g","h","i","j","k","l","m",
          "n","o","p","q","r","s","t","u","v","w","x","y","z"}
Upper == {"A","B","C","D","E","F","G","H","I","J","K","L","M",
          "N","O","P","Q","R","S","T","U","V","W","X","Y","Z"}
Digit == {"0","1","2","3","4","5","6","7","8","9"}

isalpha(c) == c \in Lower \cup Upper
isalnum(c) == isalpha(c) \/ c \in Digit
isspace(c) == c \in {" ", "\t", "\n", "\r"}

\* The characters of s from position i (1-based) to its end: the C pointer s + (i-1).
From(s, i) == SubSeq(s, i, Len(s))

\* strncmp(s, p, Len(p)) == 0
HasPrefix(s, p) == Len(s) >= Len(p) /\ SubSeq(s, 1, Len(p)) = p

\* strstr(s, p) != NULL
Contains(s, p) == \E i \in 1..(Len(s) - Len(p) + 1) : SubSeq(s, i, i + Len(p) - 1) = p

\* strchr(s, c) != NULL, for a character c other than the terminator
HasChar(s, c) == \E i \in 1..Len(s) : s[i] = c

\* The first position at or after i that holds no white space (Len(s)+1: the end).
SkipWs(s, i) ==
  CHOOSE j \in i..(Len(s) + 1) :
    /\ \A k \in i..(j - 1) : isspace(s[k])
    /\ (j = Len(s) + 1 \/ ~isspace(s[j]))

\* The character classes the scans below stop at: "word" is scanf's %s (not
\* white space), "notrparen" is %[^)], "line" is %[^\n] (a line holds no
\* newline), "delim" and "token" are strtok's delimiters " ," and the rest.
InClass(c, cls) ==
  CASE cls = "word" -> ~isspace(c)
    [] cls = "notrparen" -> c # ")"
    [] cls = "line" -> c # "\n"
    [] cls = "delim" -> c \in {" ", ","}
    [] cls = "token" -> c \notin {" ", ","}

\* The end (exclusive) of the run of characters of class cls that starts at i,
\* at most w of them.
RunEnd(s, i, w, cls) ==
  CHOOSE j \in i..(Len(s) + 1) :
    /\ j - i <= w
    /\ \A k \in i..(j - 1) : InClass(s[k], cls)
    /\ (j = Len(s) + 1 \/ j - i = w \/ ~InClass(s[j], cls))

\* What a scanf conversion stores from the run b .. e-1: it fails on an empty
\* run; next is where the scan goes on.
Run(s, b, e) == [ok |-> e > b, val |-> SubSeq(s, b, e - 1), next |-> e]

\* scanf's %<w>s: skips white space, then stores the next run of at most w
\* characters that are not white space; an input failure at the end of input.
WordAt(s, b, w) == Run(s, b, RunEnd(s, b, w, "word"))
ScanWord(s, i, w) == WordAt(s, SkipWs(s, i), w)

\* scanf's %[^)] and %[^\n]: stores the next non-empty run of characters of the
\* class (no white space is skipped); a matching failure on an empty run.
ScanSet(s, i, cls) == Run(s, i, RunEnd(s, i, Len(s) + 1, cls))

\* An ordinary character of a scanf format: must be the next input character.
MatchChar(s, i, c) == i <= Len(s) /\ s[i] = c

\* strtok(s, " ,") (or ", "), called until it returns NULL: the non-empty
\* maximal runs of characters that are neither a space nor a comma, in order.
RECURSIVE Tokens(_)
TokenAt(s, b, e) == << SubSeq(s, b, e - 1) >> \o Tokens(From(s, e))
TokensFrom(s, b) ==
  IF b > Len(s) THEN << >> ELSE TokenAt(s, b, RunEnd(s, b, Len(s) + 1, "token"))
Tokens(s) == TokensFrom(s, RunEnd(s, 1, Len(s) + 1, "delim"))

(***************************************************************************)
(* The validators (runml.c lines 177-233).                                 *)
(***************************************************************************)
\* The scan from character i with the count open_parens: TRUE when the count
\* never goes negative and is zero at the end of the line.
RECURSIVE ParenScan(_, _, _)
ParenScan(line, i, open_parens) ==
  IF i > Len(line) THEN open_parens = 0
  ELSE IF line[i] = "(" THEN ParenScan(line, i + 1, open_parens + 1)
  ELSE IF line[i] = ")"
       THEN (IF open_parens - 1 < 0 THEN FALSE
             ELSE ParenScan(line, i + 1, open_parens - 1))
  ELSE ParenScan(line, i + 1, open_parens)

check_parentheses_balance(line) == ParenScan(line, 1, 0)

\* is_valid_identifier with the length test off by one (< for <=).
is_valid_identifier_short(name) ==
  IF Len(name) = 0 \/ ~isalpha(name[1]) THEN FALSE
  ELSE IF \E i \in 2..Len(name) : ~isalnum(name[i]) /\ name[i] # "_" THEN FALSE
  ELSE Len(name) < MAX_IDENTIFIER_LENGTH

is_valid_identifier(name) ==
  IF Len(name) = 0 \/ ~isalpha(name[1]) THEN FALSE
  ELSE IF \E i \in 2..Len(name) : ~isalnum(name[i]) /\ name[i] # "_" THEN FALSE
  ELSE Len(name) <= MAX_IDENTIFIER_LENGTH

determine_variable_type(value) == IF HasChar(value, ".") THEN "double" ELSE "int"

check_type_consistency(var_type, value) == var_type = determine_variable_type(value)

\* check_function_variable_conflict: 1 (TRUE) when no registered function has
\* the name; fns holds the function_count registered functions.
check_function_variable_conflict(var_name, fns) ==
  ~\E i \in 1..Len(fns) : fns[i].name = var_name

(***************************************************************************)
(* Text the code compares lines against, and what it writes.               *)
(***************************************************************************)
KW_FUNCTION == <<"f","u","n","c","t","i","o","n">>
KW_ASSIGN == <<"<","-">>
KW_PRINT == <<"p","r","i","n","t"," ">>
KW_RETURN == <<"r","e","t","u","r","n"," ">>
KW_RETURN_BODY == <<"r","e","t","u","r","n">>

\* One fprintf: the format string and its arguments.
Chunk(fmt, args) == [fmt |-> fmt, args |-> args]

\* error_log("SYNTAX", fmt, ...): the message, before exit(EXIT_FAILURE).
NoError == [type |-> "", fmt |-> "", args |-> << >>]
SyntaxError(fmt, args) == [type |-> "SYNTAX", fmt |-> fmt, args |-> args]
\* error_log("FILE", ...) and usage: a message on stderr, and the caller goes on.
FileError(fmt, args) == [type |-> "FILE", fmt |-> fmt, args |-> args]
IsError(e) == e.fmt # ""

(***************************************************************************)
(* The expression translator (runml.c lines 602-667).                      *)
(***************************************************************************)
ExprChars == {"+", "-", "*", "/", "(", ")", ".", ",", " "}

\* The position of the first "*" or "/" of expr, or 0: the scan that opens
\* parse_term_or_factor.
FirstOperator(expr) ==
  IF \E i \in 1..Len(expr) : expr[i] \in {"*", "/"}
  THEN CHOOSE i \in 1..Len(expr) :
         expr[i] \in {"*", "/"} /\ \A j \in 1..(i - 1) : expr[j] \notin {"*", "/"}
  ELSE 0

\* parse_term_or_factor: what it writes, one element per fprintf.
RECURSIVE parse_term_or_factor(_)
\* The split with the two recursive calls in the other order.
SplitAtSwapped(expr, k) ==
  IF k = 0 THEN << Chunk("%s", << expr >>) >>
  ELSE parse_term_or_factor(From(expr, k + 1))
         \o << Chunk(IF expr[k] = "*" THEN " * " ELSE " / ", << >>) >>
         \o parse_term_or_factor(SubSeq(expr, 1, k - 1))
SplitAt(expr, k) ==
  IF k = 0 THEN << Chunk("%s", << expr >>) >>
  ELSE parse_term_or_factor(SubSeq(expr, 1, k - 1))
         \o << Chunk(IF expr[k] = "*" THEN " * " ELSE " / ", << >>) >>
         \o parse_term_or_factor(From(expr, k + 1))
parse_term_or_factor(expr) == SplitAt(expr, FirstOperator(expr))

\* The validation loop of parse_expression from character i with the count
\* open_parens: the syntax error it ends in, or NoError.
RECURSIVE ExprScan(_, _, _)
ExprScan(expr, i, open_parens) ==
  IF i > Len(expr)
  THEN (IF open_parens # 0
        THEN SyntaxError("Unmatched opening parenthesis in expression: %s\n", << expr >>)
        ELSE NoError)
  ELSE IF expr[i] = ")" /\ open_parens - 1 < 0
  THEN SyntaxError("Unmatched closing parenthesis in expression: %s\n", << expr >>)
  ELSE IF ~isalnum(expr[i]) /\ expr[i] \notin ExprChars
  THEN SyntaxError("Invalid character in expression: %c\n", << << expr[i] >> >>)
  ELSE ExprScan(expr, i + 1,
                IF expr[i] = "(" THEN open_parens + 1
                ELSE IF expr[i] = ")" THEN open_parens - 1 ELSE open_parens)

\* parse_expression: the error it exits with (NoError: none) and what it writes.
Translated(expr, e) ==
  [err |-> e, out |-> IF IsError(e) THEN << >> ELSE parse_term_or_factor(expr)]
parse_expression(expr) == Translated(expr, ExprScan(expr, 1, 0))

(***************************************************************************)
(* Type inference at a call site (runml.c lines 674-702).                  *)
(***************************************************************************)
\* The index of the first of fns with the name, or 0: the loops on
\* strcmp(functions[i].name, function_name).
FirstNamed(fns, function_name) ==
  IF \E i \in 1..Len(fns) : fns[i].name = function_name
  THEN CHOOSE i \in 1..Len(fns) :
         fns[i].name = function_name /\ \A j \in 1..(i - 1) : fns[j].name # function_name
  ELSE 0

\* The entry of a function after the loop over the tokens of a call and the
\* assignment of the return type.
TypedBy(func, tokens) ==
  [func EXCEPT
     !.parameter_types =
        [j \in 1..func.parameter_count |->
           IF j <= Len(tokens) THEN determine_variable_type(tokens[j]) ELSE @[j]],
     !.return_type =
        IF func.parameter_count = 0 THEN @
        ELSE IF Len(tokens) >= 1 THEN determine_variable_type(tokens[1])
        ELSE func.parameter_types[1]]

InferAt(fns, i, tokens) ==
  IF i = 0 THEN fns ELSE [fns EXCEPT ![i] = TypedBy(fns[i], tokens)]

\* sscanf(function_call, "%12s(%[^\n])", function_name, parameter_values):
\* parameter_values is stored only when "(" directly follows the name word;
\* otherwise the buffer keeps what the stack held, here uninit.
ValueOr(r, uninit) == IF r.ok THEN r.val ELSE uninit
CallAfterName(function_call, w, uninit) ==
  [function_name |-> w.val,
   parameter_values |->
     IF w.ok /\ MatchChar(function_call, w.next, "(")
     THEN ValueOr(ScanSet(function_call, w.next + 1, "line"), uninit)
     ELSE uninit]
ScanCall(function_call, uninit) ==
  CallAfterName(function_call, ScanWord(function_call, 1, MAX_IDENTIFIER_LENGTH), uninit)

\* determine_parameter_types: the function table after the call.
InferFrom(c, fns) ==
  InferAt(fns, FirstNamed(fns, c.function_name), Tokens(c.parameter_values))
determine_parameter_types(function_call, fns, uninit) ==
  InferFrom(ScanCall(function_call, uninit), fns)

(***************************************************************************)
(* Variable storage (runml.c lines 371-408).                               *)
(***************************************************************************)
Variable(name, type) == [name |-> name, type |-> type]

\* sscanf(line, "%11s <- %[^\n]", identifier, expression): whether it returns
\* 2, and the two strings it stores.
NoAssignment(identifier) == [ok |-> FALSE, identifier |-> identifier, expression |-> << >>]
AssignmentOf(id, ex) ==
  [ok |-> ex.ok, identifier |-> id.val, expression |-> ex.val]
AssignmentAt(line, id, lt) ==
  IF MatchChar(line, lt, "<") /\ MatchChar(line, lt + 1, "-")
  THEN AssignmentOf(id, ScanSet(line, SkipWs(line, lt + 2), "line"))
  ELSE NoAssignment(id.val)
AssignmentAfter(line, id) ==
  IF id.ok THEN AssignmentAt(line, id, SkipWs(line, id.next)) ELSE NoAssignment(<< >>)
ScanAssignment(line) ==
  AssignmentAfter(line, ScanWord(line, 1, MAX_IDENTIFIER_LENGTH - 1))

\* store_variable(line, is_global): the error it exits with and the table of
\* the scope (vars) as it leaves it.
Stored(e, vars) == [err |-> e, vars |-> vars]
StoreScanned(a, vars, fns) ==
  IF ~a.ok THEN Stored(NoError, vars)
  ELSE IF ~is_valid_identifier(a.identifier)
  THEN Stored(SyntaxError("Invalid variable name: %s\n", << a.identifier >>), vars)
  ELSE IF ~check_function_variable_conflict(a.identifier, fns)
  THEN Stored(SyntaxError("Variable name conflicts with a function name: %s\n",
                          << a.identifier >>), vars)
  ELSE IF ~check_type_consistency(determine_variable_type(a.expression), a.expression)
  THEN Stored(SyntaxError("Type mismatch for variable %s: expected %s but got %s\n",
                          << a.identifier >>), vars)
  ELSE Stored(NoError,
              Append(vars, Variable(a.identifier, determine_variable_type(a.expression))))
store_variable(line, vars, capacity, fns) ==
  IF Len(vars) >= capacity
  THEN Stored(SyntaxError("Too many variables defined.\n", << >>), vars)
  ELSE StoreScanned(ScanAssignment(line), vars, fns)

(***************************************************************************)
(* Statement translation (runml.c lines 525-594 and 731-746).              *)
(***************************************************************************)
\* What a translation leaves: the error it exits with, what it has written to
\* output_file by then, and the local table and the function table.
Result(e, out, locals, fns) == [err |-> e, out |-> out, locals |-> locals, fns |-> fns]

\* A statement that writes head, then the expression, then tail.
Statement(head, e, tail, locals, fns) ==
  Result(e.err, IF IsError(e.err) THEN head ELSE head \o e.out \o tail, locals, fns)

\* generate_print_statement: what it writes around the expression.
PrintHead ==
  << Chunk("{\n", << >>), Chunk("double temp_value;\n", << >>),
     Chunk("temp_value = ", << >>) >>
PrintTail ==
  << Chunk(";\n", << >>),
     Chunk("if (fabs(temp_value - (int)temp_value) < 1e-6) {\n", << >>),
     Chunk("printf(\"%%d\\n\", (int)temp_value);\n", << >>),
     Chunk("} else {\n", << >>),
     Chunk("printf(\"%%.6f\\n\", temp_value);\n", << >>),
     Chunk("}\n", << >>), Chunk("}\n", << >>) >>
generate_print_statement(expression, locals, fns) ==
  Statement(PrintHead, parse_expression(expression), PrintTail, locals, fns)

\* sscanf(ml_code + (i-1), "%[^\n]", expression): the rest of the line, or, when
\* nothing is left to store, what the buffer held before (uninit).
ScanRest(ml_code, i, uninit) == ValueOr(ScanSet(ml_code, i, "line"), uninit)

\* The type the tables give an identifier: the first global of that name, else
\* the first local, else "" (the NULL of the code).
TypeIn(vars, identifier) ==
  IF \E i \in 1..Len(vars) : vars[i].name = identifier
  THEN vars[CHOOSE i \in 1..Len(vars) :
              vars[i].name = identifier
              /\ \A j \in 1..(i - 1) : vars[j].name # identifier].type
  ELSE ""
LookupType(identifier, globals, locals) ==
  IF TypeIn(globals, identifier) # "" THEN TypeIn(globals, identifier)
  ELSE TypeIn(locals, identifier)

\* The assignment branch of generate_c_code, a being what sscanf stored and
\* known the type found in the tables.
AssignKnown(a, known, locals, fns) ==
  IF known = ""
  THEN Statement(<< Chunk("%s %s = ",
                          << determine_variable_type(a.expression), a.identifier >>) >>,
                 parse_expression(a.expression), << Chunk(";\n", << >>) >>,
                 Append(locals, Variable(a.identifier,
                                         determine_variable_type(a.expression))),
                 fns)
  ELSE Statement(<< Chunk("%s = ", << a.identifier >>) >>,
                 parse_expression(a.expression), << Chunk(";\n", << >>) >>, locals, fns)
AssignScanned(ml_code, a, globals, locals, fns) ==
  IF ~a.ok
  THEN Result(SyntaxError("Invalid assignment: %s\n", << ml_code >>), << >>, locals, fns)
  ELSE AssignKnown(a, LookupType(a.identifier, globals, locals), locals, fns)

\* generate_c_code(ml_code, output_file).
generate_c_code(ml_code, globals, locals, fns, uninit) ==
  IF Contains(ml_code, KW_ASSIGN)
  THEN AssignScanned(ml_code, ScanAssignment(ml_code), globals, locals, fns)
  ELSE IF HasPrefix(ml_code, KW_PRINT)
  THEN generate_print_statement(ScanRest(ml_code, 7, uninit), locals, fns)
  ELSE IF HasPrefix(ml_code, KW_RETURN)
  THEN Statement(<< Chunk("return ", << >>) >>,
                 parse_expression(ScanRest(ml_code, 8, uninit)),
                 << Chunk(";\n", << >>) >>, locals, fns)
  ELSE IF HasChar(ml_code, "(") /\ HasChar(ml_code, ")")
  THEN Result(NoError, << Chunk("%s;\n", << ml_code >>) >>, locals,
              determine_parameter_types(ml_code, fns, uninit))
  ELSE Result(SyntaxError("Unrecognized statement: %s\n", << ml_code >>), << >>,
              locals, fns)

(***************************************************************************)
(* Function definitions (runml.c lines 266-363 and 449-482, 709-723).      *)
(***************************************************************************)
Function(name, parameters) ==
  [name |-> name,
   parameters |-> parameters,
   parameter_types |-> [j \in 1..Len(parameters) |-> "unknown"],
   parameter_count |-> Len(parameters),
   return_type |-> "void",
   body |-> << >>,
   has_return_statement |-> FALSE]

\* The two sscanf calls on the header, pos being line + 9: "%12s ( %[^)] )",
\* then "%12s %[^\n]": whether one of them returns 2, and function_name and
\* parameters as they are left. lp is where the white space after the name ends.
NoRun == [ok |-> FALSE, val |-> << >>, next |-> 0]
HeaderOf(w, inner, bare) ==
  [ok |-> inner.ok \/ bare.ok,
   function_name |-> w.val,
   parameters |-> IF inner.ok THEN inner.val ELSE bare.val]
HeaderAt(pos, w, lp) ==
  HeaderOf(w,
           IF MatchChar(pos, lp, "(")
           THEN ScanSet(pos, SkipWs(pos, lp + 1), "notrparen") ELSE NoRun,
           ScanSet(pos, lp, "line"))
HeaderAfter(pos, w) ==
  IF w.ok THEN HeaderAt(pos, w, SkipWs(pos, w.next)) ELSE HeaderOf(w, NoRun, NoRun)
ScanHeader(pos) == HeaderAfter(pos, ScanWord(pos, 1, MAX_IDENTIFIER_LENGTH))

\* The loop over strtok's parameters: the first that is too long or does not
\* start with a letter, or 0.
FirstBadParameter(params) ==
  IF \E j \in 1..Len(params) :
       Len(params[j]) > MAX_IDENTIFIER_LENGTH \/ ~isalpha(params[j][1])
  THEN CHOOSE j \in 1..Len(params) :
         /\ Len(params[j]) > MAX_IDENTIFIER_LENGTH \/ ~isalpha(params[j][1])
         /\ \A k \in 1..(j - 1) :
              ~(Len(params[k]) > MAX_IDENTIFIER_LENGTH \/ ~isalpha(params[k][1]))
  ELSE 0

\* The header part of store_function_definition_and_body (lines 267-311):
\* the error it exits with, or the entry functions[function_count] it fills.
Header(e, fn) == [err |-> e, fn |-> fn]
HeaderParameters(function_name, params, bad) ==
  IF bad # 0
  THEN Header(SyntaxError("Invalid parameter in function: %s\n", << params[bad] >>), << >>)
  ELSE Header(NoError, << Function(function_name, params) >>)
HeaderTokens(function_name, params) ==
  HeaderParameters(function_name, params, FirstBadParameter(params))
HeaderScanned(line, h) ==
  IF ~h.ok
  THEN Header(SyntaxError("Invalid function definition: %s\n", << line >>), << >>)
  ELSE HeaderTokens(h.function_name, Tokens(h.parameters))
ParseFunctionHeader(line, function_count, uninit) ==
  IF function_count >= MAX_FUNCTIONS
  THEN Header(SyntaxError("Too many functions defined.\n", << >>), << >>)
  ELSE HeaderScanned(line, ScanHeader(IF Len(line) >= 9 THEN From(line, 10) ELSE uninit))

\* update_function_prototype(function_name): the function table after it.
Defaulted(func) ==
  IF func.parameter_count > 0 /\ func.parameter_types[1] = "unknown"
  THEN [func EXCEPT !.parameter_types = [j \in 1..func.parameter_count |-> "double"],
                    !.return_type = "double"]
  ELSE func
DefaultAt(fns, i) == IF i = 0 THEN fns ELSE [fns EXCEPT ![i] = Defaulted(fns[i])]
update_function_prototype(function_name, fns) ==
  DefaultAt(fns, FirstNamed(fns, function_name))

\* The parameter list of a prototype or a definition, one element per fprintf.
RECURSIVE ParameterList(_, _)
ParameterList(func, j) ==
  IF j > func.parameter_count THEN << >>
  ELSE << Chunk("%s %s", << func.parameter_types[j], func.parameters[j] >>) >>
       \o (IF j < func.parameter_count THEN << Chunk(", ", << >>) >> ELSE << >>)
       \o ParameterList(func, j + 1)

\* What the loop body of generate_function_prototypes_and_code writes for func.
FunctionCode(func) ==
  << Chunk("%s %s(", << func.return_type, func.name >>) >>
    \o ParameterList(func, 1)
    \o << Chunk(");\n", << >>), Chunk("%s %s(", << func.return_type, func.name >>) >>
    \o ParameterList(func, 1)
    \o << Chunk(") {\n%s", << func.body >>) >>
    \o (IF ~func.has_return_statement /\ func.return_type # "void"
        THEN << Chunk("return 0;\n", << >>) >> ELSE << >>)
    \o << Chunk("}\n\n", << >>) >>

\* generate_function_prototypes_and_code from function i on: the function table
\* it leaves and what it writes.
RECURSIVE generate_function_prototypes_and_code(_, _)
Written(code, rest) == [fns |-> rest.fns, out |-> code \o rest.out]
GenerateUpdated(updated, i) ==
  Written(FunctionCode(updated[i]), generate_function_prototypes_and_code(updated, i + 1))
generate_function_prototypes_and_code(fns, i) ==
  IF i > Len(fns) THEN [fns |-> fns, out |-> << >>]
  ELSE GenerateUpdated(update_function_prototype(fns[i].name, fns), i)

\* generate_global_variables: one declaration per entry of the global table.
generate_global_variables(globals) ==
  [i \in 1..Len(globals) |->
     Chunk("%s %s = 0.0;\n", << globals[i].type, globals[i].name >>)]
     \o << Chunk("\n", << >>) >>

(***************************************************************************)
(* The source files the model runs on.                                     *)
(***************************************************************************)
LnFunctionBare == <<"f","u","n","c","t","i","o","n"," ","f"," ","x">>
LnFunctionParen == <<"f","u","n","c","t","i","o","n"," ","g"," ","(","a",","," ","b",")">>
LnFunctionReadme == <<"f","u","n","c","t","i","o","n"," ","s","q","(","x",")">>
LnFunctionReadme2 == <<"f","u","n","c","t","i","o","n"," ","h","(","a",","," ","b",")">>
LnFunctionLong == <<"f","u","n","c","t","i","o","n"," ","a","b","c","d","e","f","g","h","i","j","k","l"," ","x"," ","y">>
LnBodyReturn == <<"\t","r","e","t","u","r","n"," ","x">>
LnBodyAssign == <<"\t","y"," ","<","-"," ","1">>
LnBodyAssignF == <<"\t","f"," ","<","-"," ","1">>
LnBodyTwoTabs == <<"\t","\t","y"," ","<","-"," ","2",".","5">>
LnBodySpaces == <<" "," ","p","r","i","n","t"," ","x">>
LnBodyCall == <<"\t","g"," ","(","1",")",")">>
LnAssignInt == <<"a"," ","<","-"," ","1","0","/","3">>
LnAssignReal == <<"a"," ","<","-"," ","2",".","5">>
LnAssignF == <<"f"," ","<","-"," ","1">>
LnPrint == <<"p","r","i","n","t"," ","a">>
LnPrintOpen == <<"p","r","i","n","t"," ","(","a">>
LnComment == <<"#"," ","a">>
LnBlank == << >>
LnCallSpace == <<"f"," ","(","1"," ","+"," ","2",".","5",","," ","3",")">>
LnCallLong == <<"a","b","c","d","e","f","g","h","i","j","k","l","(","1"," ","+"," ","2",".","5",","," ","3",")">>
LnAssignLong == <<"a","b","c","d","e","f","g","h","i","j","k","l"," ","<","-"," ","1">>
LnCallTight == <<"g","(","2",".","5",","," ","1",")">>
LnFunctionNone == <<"f","u","n","c","t","i","o","n"," ","z"," ",",">>
LnBodyBadName == <<"\t","9","x"," ","<","-"," ","1">>
LnCommentAssign == <<"#","a"," ","<","-"," ","1">>
LnCommentOpen == <<"#"," ","(">>
LnCallExact == <<"a","b","c","d","e","f","g","h","i","j","k","l","(","2",".","5",",","1",")">>
LnBodyPrintOpen == <<"\t","p","r","i","n","t"," ","(","a">>

LinePool ==
  {LnFunctionBare,
   LnFunctionParen,
   LnFunctionReadme,
   LnFunctionReadme2,
   LnFunctionLong,
   LnBodyReturn,
   LnBodyAssign,
   LnBodyAssignF,
   LnBodyTwoTabs,
   LnBodySpaces,
   LnBodyCall,
   LnAssignInt,
   LnAssignReal,
   LnAssignF,
   LnPrint,
   LnPrintOpen,
   LnComment,
   LnBlank,
   LnCallSpace,
   LnCallLong,
   LnAssignLong,
   LnCallTight,
   LnFunctionNone,
   LnBodyBadName,
   LnCommentAssign,
   LnCommentOpen,
   LnCallExact,
   LnBodyPrintOpen}

\* The longest source built freely from LinePool.
MaxLines == 3

RECURSIVE SeqsUpTo(_, _)
SeqsUpTo(S, n) ==
  IF n = 0 THEN {<< >>}
  ELSE LET shorter == SeqsUpTo(S, n - 1)
       IN shorter \cup {Append(q, x) : q \in {r \in shorter : Len(r) = n - 1}, x \in S}

ShortSources == SeqsUpTo(LinePool, MaxLines) \ {<< >>}

\* Sources that fill a variable table: LongLen assignments to distinct names,
\* at top level, or as the body of one function.
LongLen == MAX_IDENTIFIERS + 1
DigitAt == <<"0","1","2","3","4","5","6","7","8","9">>
VarName(i) == <<"v", DigitAt[(i \div 10) + 1], DigitAt[(i % 10) + 1]>>
AssignTo(name) == name \o <<" ","<","-"," ","1">>
LongTopLevel == [i \in 1..LongLen |-> AssignTo(VarName(i))]
LongBody == << LnFunctionBare >> \o [i \in 1..LongLen |-> <<"\t">> \o AssignTo(VarName(i))]
LongSources == {LongTopLevel, LongBody}

\* Two functions whose bodies assign the same name, far enough apart for the
\* body loop to end the first before the second header (lines 317-341).
ScopedSources ==
  {<< LnFunctionBare, first, LnComment, LnComment, LnFunctionParen, second >> :
     first \in {LnBodyAssign, LnBodyReturn}, second \in {LnBodyAssign, LnBodyTwoTabs}}

Sources == ShortSources \cup LongSources \cup ScopedSources

\* What an uninitialised character buffer may hold when the code reads it.
UninitBuffers == {<< >>, <<"1">>, <<"2",".","5">>}

(***************************************************************************)
(* The state of one run of the translator.                                 *)
(***************************************************************************)
VARIABLES
  source,            \* the lines of the ml file
  pc,                \* where the run is: the step about to run, or how it ended:
                     \* "error" (exit from error_log), "failure", "success"
  pos,               \* the file position of ml_file: the next line fgets returns
  functions,         \* functions[0 .. function_count-1]
  cur,               \* functions[function_count] while its body is being read
  global_variables,  \* global_variables[0 .. global_var_count-1]
  local_variables,   \* local_variables[0 .. local_var_count-1]
  c_file,            \* what has been written to the generated C file
  main_lines,        \* the lines generate_main_code has passed to generate_c_code
  err,               \* the last message written to stderr
  argv,              \* the command line, argv[0] first
  handles,           \* the streams fopen returned and fclose has not been given
  command,           \* the command execute_c_program passed to system
  arg,               \* the argument of a function called on its own
  ret                \* what that call returned

vars == <<source, pc, pos, functions, cur, global_variables, local_variables,
          c_file, main_lines, err, argv, handles, command, arg, ret>>

\* The translator's own state, and the state of a call of one function.
run == <<source, pc, pos, functions, cur, global_variables, local_variables,
         c_file, main_lines, err>>
unit == <<arg, ret>>
\* What the translation has read and built, apart from where it is.
run_data == <<source, pos, functions, cur, global_variables, local_variables,
              c_file, main_lines, err>>
\* The process around the translation: its command line and open streams.
proc == <<argv, handles, command>>

\* A command line main accepts, without -v.
PlainArgv == <<"runml", "p.ml">>

Init ==
  /\ source \in Sources
  /\ pc = "first_pass"
  /\ pos = 1
  /\ functions = << >>
  /\ cur = << >>
  /\ global_variables = << >>
  /\ local_variables = << >>
  /\ c_file = << >>
  /\ main_lines = << >>
  /\ err = NoError
  /\ argv = PlainArgv
  /\ handles = {"ml_file"}
  /\ command = << >>
  /\ arg = << >>
  /\ ret = FALSE

\* error_log("SYNTAX", ...) without its exit: the message is written and the
\* caller goes on.
ExitSkipped(e) == pc' = pc /\ err' = e

\* exit(EXIT_FAILURE) from error_log("SYNTAX", ...).
Exit(e) == pc' = "error" /\ err' = e

\* One iteration of the loop of first_pass on a line fgets returned.
FirstPassLine ==
  /\ pc = "first_pass"
  /\ pos <= Len(source)
  /\ pos' = pos + 1
  /\ \E line \in {source[pos]} :
       IF ~check_parentheses_balance(line)
       THEN /\ Exit(SyntaxError("Unbalanced parentheses in line: %s\n", << line >>))
            /\ UNCHANGED <<cur, global_variables>>
       ELSE IF HasPrefix(line, KW_FUNCTION)
       THEN \E uninit \in UninitBuffers :
            \E h \in {ParseFunctionHeader(line, Len(functions), uninit)} :
              /\ cur' = h.fn
              /\ IF IsError(h.err) THEN Exit(h.err)
                 ELSE pc' = "body" /\ err' = err
              /\ UNCHANGED global_variables
       ELSE IF Contains(line, KW_ASSIGN)
       THEN \E r \in {store_variable(line, global_variables, MAX_GLOBAL_VARS, functions)} :
              /\ global_variables' = r.vars
              /\ IF IsError(r.err) THEN Exit(r.err) ELSE UNCHANGED <<pc, err>>
              /\ UNCHANGED cur
       ELSE UNCHANGED <<pc, err, cur, global_variables>>
  /\ UNCHANGED <<source, functions, local_variables, c_file, main_lines>>
  /\ UNCHANGED <<unit, proc>>

\* The end of the body loop of store_function_definition_and_body (lines
\* 361-362): the entry is complete and function_count is incremented.
Registered == Append(functions, cur[1])

\* next_line_k[0] == '\t' after the peek: the line at position k, or, when
\* fgets stored nothing, what the buffer held before (stale).
PeekTab(k, stale) == IF k <= Len(source) THEN HasPrefix(source[k], <<"\t">>) ELSE stale

\* One iteration of the body loop of store_function_definition_and_body on a
\* line fgets returned. tab1 and tab2: whether next_line_1[0] and
\* next_line_2[0] are a tab when the peek's fgets stored nothing.
BodyLine ==
  /\ pc = "body"
  /\ pos <= Len(source)
  /\ pos' = pos + 1
  /\ \E body_line \in {source[pos]} :
       IF Len(body_line) = 0 \/ body_line[1] # "\t"
       THEN \E tab1 \in BOOLEAN, tab2 \in BOOLEAN :
            \E next1 \in {PeekTab(pos + 1, tab1)}, next2 \in {PeekTab(pos + 2, tab2)} :
              IF ~next1 /\ ~next2
              THEN /\ functions' = Registered
                   /\ cur' = << >>
                   /\ pc' = "first_pass"
                   /\ UNCHANGED <<err, local_variables, handles>>
              ELSE IF next1
              THEN /\ Exit(SyntaxError(
                        "Invalid indentation in function '%s'. Line has spaces or multiple tabs.\n",
                        << cur[1].name >>))
                   /\ UNCHANGED <<functions, cur, local_variables, handles>>
              ELSE UNCHANGED <<functions, cur, pc, err, local_variables, handles>>
       ELSE \E uninit \in UninitBuffers :
            \E r \in {generate_c_code(From(body_line, 2), global_variables,
                                      local_variables, functions, uninit)},
               has_return \in {HasPrefix(From(body_line, 2), KW_RETURN_BODY)} :
              /\ local_variables' = r.locals
              /\ functions' = r.fns
              /\ IF IsError(r.err)
                 THEN /\ Exit(r.err)
                      /\ cur' = [cur EXCEPT ![1].has_return_statement = @ \/ has_return]
                      /\ handles' = handles \cup {"temp_body"}
                 ELSE /\ UNCHANGED <<pc, err, handles>>
                      /\ cur' = [cur EXCEPT ![1].has_return_statement = @ \/ has_return,
                                            ![1].body = @ \o r.out]
  /\ UNCHANGED <<source, global_variables, c_file, main_lines>>
  /\ UNCHANGED <<unit, argv, command>>

\* fgets returns NULL in the body loop: the function is registered, and the
\* loop of first_pass reads on.
BodyEnd ==
  /\ pc = "body"
  /\ pos > Len(source)
  /\ functions' = Registered
  /\ cur' = << >>
  /\ pc' = "first_pass"
  /\ UNCHANGED <<source, pos, global_variables, local_variables, c_file, main_lines, err>>
  /\ UNCHANGED <<unit, proc>>

\* fgets returns NULL in first_pass: rewind(ml_file).
FirstPassEnd ==
  /\ pc = "first_pass"
  /\ pos > Len(source)
  /\ pos' = 1
  /\ pc' = "second_pass"
  /\ UNCHANGED <<source, functions, cur, global_variables, local_variables,
                 c_file, main_lines, err>>
  /\ UNCHANGED <<unit, proc>>

\* create_c_file, then second_pass up to the loop of generate_main_code. When
\* fopen fails (created is FALSE) main closes ml_file and returns EXIT_FAILURE.
SecondPassBegin ==
  /\ pc = "second_pass"
  /\ \E created \in BOOLEAN :
       IF ~created
       THEN /\ err' = FileError("Could not create temporary C file.\n", << >>)
            /\ handles' = handles \ {"ml_file"}
            /\ pc' = "failure"
            /\ UNCHANGED <<functions, c_file, local_variables>>
       ELSE \E g \in {generate_function_prototypes_and_code(functions, 1)} :
            /\ functions' = g.fns
            /\ c_file' = << Chunk("#include <stdio.h>\n", << >>),
                            Chunk("#include <math.h>\n", << >>) >>
                         \o generate_global_variables(global_variables)
                         \o g.out
                         \o << Chunk("int main(int argc, char *argv[]) {\n", << >>) >>
            /\ local_variables' = << >>
            /\ handles' = handles \cup {"c_file"}
            /\ pc' = "main_code"
            /\ err' = err
  /\ UNCHANGED <<source, pos, cur, global_variables, main_lines>>
  /\ UNCHANGED <<unit, argv, command>>

\* The position after the inner loop of generate_main_code that skips a
\* function body from position i: it also reads the first line that does not
\* start with a tab.
RECURSIVE SkipBody(_, _)
SkipBody(src, i) ==
  IF i > Len(src) THEN i
  ELSE IF ~HasPrefix(src[i], <<"\t">>) THEN i + 1
  ELSE SkipBody(src, i + 1)

\* One iteration of the loop of generate_main_code on a line fgets returned.
MainCodeLine ==
  /\ pc = "main_code"
  /\ pos <= Len(source)
  /\ \E line \in {source[pos]} :
       IF HasPrefix(line, KW_FUNCTION)
       THEN /\ pos' = SkipBody(source, pos + 1)
            /\ UNCHANGED <<pc, err, functions, local_variables, c_file, main_lines>>
       ELSE IF HasPrefix(line, <<"#">>)
       THEN /\ pos' = pos + 1
            /\ UNCHANGED <<pc, err, functions, local_variables, c_file, main_lines>>
       ELSE
         /\ pos' = pos + 1
         /\ \E s \in {IF Contains(line, KW_ASSIGN)
                      THEN store_variable(line, local_variables, MAX_IDENTIFIERS, functions)
                      ELSE Stored(NoError, local_variables)} :
              IF IsError(s.err)
              THEN /\ Exit(s.err)
                   /\ local_variables' = s.vars
                   /\ UNCHANGED <<functions, c_file, main_lines>>
              ELSE \E uninit \in UninitBuffers :
                   \E r \in {generate_c_code(line, global_variables, s.vars,
                                             functions, uninit)} :
                     /\ local_variables' = r.locals
                     /\ functions' = r.fns
                     /\ c_file' = c_file \o r.out
                     /\ main_lines' = Append(main_lines, pos)
                     /\ IF IsError(r.err) THEN Exit(r.err) ELSE UNCHANGED <<pc, err>>
  /\ UNCHANGED <<source, cur, global_variables>>
  /\ UNCHANGED <<unit, proc>>

\* fgets returns NULL in generate_main_code: second_pass closes main.
MainCodeEnd ==
  /\ pc = "main_code"
  /\ pos > Len(source)
  /\ c_file' = Append(c_file, Chunk("return 0;\n}\n", << >>))
  /\ pc' = "done"
  /\ UNCHANGED <<source, pos, functions, cur, global_variables, local_variables,
                 main_lines, err>>
  /\ UNCHANGED <<unit, proc>>

\* main after second_pass returned: fclose(ml_file), fclose(c_file).
CloseFiles ==
  /\ pc = "done"
  /\ handles' = handles \ {"ml_file", "c_file"}
  /\ pc' = "compile"
  /\ UNCHANGED <<run_data, argv, command, unit>>

\* compile_c_program: system(cc ...) succeeds (compiled) or not.
CompileCProgram ==
  /\ pc = "compile"
  /\ \E compiled \in BOOLEAN :
       IF compiled
       THEN pc' = "execute" /\ err' = err
       ELSE /\ err' = FileError("Compilation failed for ml_%d.c\n", << "pid" >>)
            /\ pc' = "failure"
  /\ UNCHANGED <<source, pos, functions, cur, global_variables, local_variables,
                 c_file, main_lines, proc, unit>>

\* execute_c_program: the command is ./ml_<pid> followed by argv[2..argc-1].
ExecuteCProgram ==
  /\ pc = "execute"
  /\ command' = << "./ml_%d" >> \o SubSeq(argv, 3, Len(argv))
  /\ \E executed \in BOOLEAN :
       IF executed
       THEN pc' = "clean_up" /\ err' = err
       ELSE /\ err' = FileError("Execution failed for ml_%d\n", << "pid" >>)
            /\ pc' = "failure"
  /\ UNCHANGED <<source, pos, functions, cur, global_variables, local_variables,
                 c_file, main_lines, argv, handles, unit>>

\* clean_up, then main returns EXIT_SUCCESS.
CleanUp ==
  /\ pc = "clean_up"
  /\ pc' = "success"
  /\ UNCHANGED <<run_data, proc, unit>>

Next ==
  \/ FirstPassLine
  \/ BodyLine
  \/ BodyEnd
  \/ FirstPassEnd
  \/ SecondPassBegin
  \/ MainCodeLine
  \/ MainCodeEnd
  \/ CloseFiles
  \/ CompileCProgram
  \/ ExecuteCProgram
  \/ CleanUp

Spec == Init /\ [][Next]_vars

(***************************************************************************)
(* is_valid_identifier called on its own, on the names of NameInputs: a    *)
(* first character, a filling character, and one other character at one   *)
(* position.                                                               *)
(***************************************************************************)
\* The longest name tried: one more than MAX_IDENTIFIER_LENGTH.
MaxNameLen == 13

NameChars == {"a", "Z", "7", "_", "-"}

NameInputs ==
  {[i \in 1..n |-> IF i = 1 THEN first ELSE IF i = at THEN other ELSE fill] :
     n \in 0..MaxNameLen, first \in NameChars, fill \in NameChars,
     at \in 2..MaxNameLen, other \in NameChars}

InitIdentifier ==
  /\ source = << >>
  /\ pc = "call"
  /\ pos = 1
  /\ functions = << >>
  /\ cur = << >>
  /\ global_variables = << >>
  /\ local_variables = << >>
  /\ c_file = << >>
  /\ main_lines = << >>
  /\ err = NoError
  /\ argv = << >>
  /\ handles = {}
  /\ command = << >>
  /\ arg \in NameInputs
  /\ ret = FALSE

CallIsValidIdentifier ==
  /\ pc = "call"
  /\ ret' = is_valid_identifier(arg)
  /\ pc' = "returned"
  /\ UNCHANGED <<source, pos, functions, cur, global_variables, local_variables,
                 c_file, main_lines, err, arg>>
  /\ UNCHANGED proc

NextIdentifier == CallIsValidIdentifier

SpecIdentifier == InitIdentifier /\ [][NextIdentifier]_vars

(***************************************************************************)
(* parse_expression called on its own, on the expressions of ExprInputs.   *)
(***************************************************************************)
\* The longest expression tried.
MaxExprLen == 5

ExprAlphabet == {"a", "2", ".", "*", "/", "+", "(", ")", " ", "$"}

ExprInputs == SeqsUpTo(ExprAlphabet, MaxExprLen)

InitExpression ==
  /\ source = << >>
  /\ pc = "call"
  /\ pos = 1
  /\ functions = << >>
  /\ cur = << >>
  /\ global_variables = << >>
  /\ local_variables = << >>
  /\ c_file = << >>
  /\ main_lines = << >>
  /\ err = NoError
  /\ argv = << >>
  /\ handles = {}
  /\ command = << >>
  /\ arg \in ExprInputs
  /\ ret = FALSE

CallParseExpression ==
  /\ pc = "call"
  /\ ret' = parse_expression(arg)
  /\ pc' = "translated"
  /\ UNCHANGED <<source, pos, functions, cur, global_variables, local_variables,
                 c_file, main_lines, err, arg>>
  /\ UNCHANGED proc

NextExpression == CallParseExpression

SpecExpression == InitExpression /\ [][NextExpression]_vars

(***************************************************************************)
(* A whole run of main, from its command line (runml.c lines 807-864).     *)
(***************************************************************************)
\* The longest source tried with every command line.
MaxMainLines == 2

MainSources == SeqsUpTo(LinePool, MaxMainLines) \ {<< >>}

\* The command lines tried: none, a source file, -v, and numeric arguments.
ArgvInputs ==
  {<<"runml">>,
   PlainArgv,
   PlainArgv \o <<"-v">>,
   PlainArgv \o <<"3">>,
   PlainArgv \o <<"3", "4.5">>,
   PlainArgv \o <<"-v", "3">>}

InitMain ==
  /\ source \in MainSources
  /\ pc = "main"
  /\ pos = 1
  /\ functions = << >>
  /\ cur = << >>
  /\ global_variables = << >>
  /\ local_variables = << >>
  /\ c_file = << >>
  /\ main_lines = << >>
  /\ err = NoError
  /\ argv \in ArgvInputs
  /\ handles = {}
  /\ command = << >>
  /\ arg = << >>
  /\ ret = FALSE

\* usage(argv[0]).
Usage == [type |-> "USAGE", fmt |-> "Usage: %s <ml-file> [-v]\n", args |-> << argv[1] >>]

\* The checks of argc and argv[2] that open main: argc is Len(argv).
MainArgs ==
  /\ pc = "main"
  /\ IF Len(argv) < 2 \/ Len(argv) > 3
     THEN err' = Usage /\ pc' = "failure"
     ELSE IF Len(argv) = 3 /\ argv[3] # "-v"
     THEN err' = Usage /\ pc' = "failure"
     ELSE err' = err /\ pc' = "open"
  /\ UNCHANGED <<source, pos, functions, cur, global_variables, local_variables,
                 c_file, main_lines, proc, unit>>

\* open_ml_file: fopen gives the stream (opened) or NULL.
OpenMlFile ==
  /\ pc = "open"
  /\ \E opened \in BOOLEAN :
       IF opened
       THEN /\ handles' = handles \cup {"ml_file"}
            /\ pc' = "first_pass"
            /\ err' = err
       ELSE /\ err' = FileError("Could not open file %s\n", << argv[2] >>)
            /\ pc' = "failure"
            /\ UNCHANGED handles
  /\ UNCHANGED <<source, pos, functions, cur, global_variables, local_variables,
                 c_file, main_lines, argv, command, unit>>

NextMain ==
  \/ MainArgs
  \/ OpenMlFile
  \/ Next

SpecMain == InitMain /\ [][NextMain]_vars

(***************************************************************************)
(* What the specification says of a source, read off its text.             *)
(***************************************************************************)
IsHeader(l) == HasPrefix(l, KW_FUNCTION)
IsComment(l) == HasPrefix(l, <<"#">>)
StartsWithTab(l) == HasPrefix(l, <<"\t">>)

\* The identifier rule: a letter, then letters, digits or underscores, at most
\* 12 characters in all.
IdentifierRule(x) ==
  /\ Len(x) >= 1
  /\ Len(x) <= 12
  /\ x[1] \in Lower \cup Upper
  /\ \A i \in 2..Len(x) : x[i] \in Lower \cup Upper \cup Digit \cup {"_"}

\* The pieces of s between the characters of D.
RECURSIVE SplitOn(_, _)
SplitOn(s, D) ==
  IF s = << >> THEN << >>
  ELSE IF s[1] \in D THEN SplitOn(Tail(s), D)
  ELSE LET n == CHOOSE k \in 1..Len(s) :
                  /\ \A j \in 1..k : s[j] \notin D
                  /\ (k = Len(s) \/ s[k + 1] \in D)
       IN << SubSeq(s, 1, n) >> \o SplitOn(From(s, n + 1), D)

\* A header as written, "function name(a, b)" or "function name a b": the
\* name and the parameter names.
HeaderWords(l) == SplitOn(From(l, 9), {" ", "(", ")", ","})
WrittenName(l) == HeaderWords(l)[1]
WrittenParameters(l) == Tail(HeaderWords(l))
WellFormedHeader(l) ==
  /\ HasPrefix(l, KW_FUNCTION \o <<" ">>)
  /\ check_parentheses_balance(l)
  /\ Len(HeaderWords(l)) >= 2
  /\ \A k \in 1..Len(HeaderWords(l)) : IdentifierRule(HeaderWords(l)[k])

\* Line i belongs to a function block: a header, or one of the tab-indented
\* lines that follow a header without a break.
InFunctionBlock(src, i) ==
  \/ IsHeader(src[i])
  \/ /\ StartsWithTab(src[i])
     /\ \E h \in 1..(i - 1) :
          IsHeader(src[h]) /\ \A k \in (h + 1)..i : StartsWithTab(src[k])

\* The top-level statement lines from line i on, in source order.
IsStatementLine(src, i) ==
  src[i] # << >> /\ ~IsComment(src[i]) /\ ~InFunctionBlock(src, i)
RECURSIVE StatementLines(_, _)
StatementLines(src, i) ==
  IF i > Len(src) THEN << >>
  ELSE (IF IsStatementLine(src, i) THEN << i >> ELSE << >>) \o StatementLines(src, i + 1)

\* A top-level assignment line, its target and its expression text.
IsTopLevelAssignment(src, i) ==
  Contains(src[i], KW_ASSIGN) /\ ~IsComment(src[i]) /\ ~InFunctionBlock(src, i)
ArrowAt(l) ==
  CHOOSE k \in 1..Len(l) :
    SubSeq(l, k, k + 1) = KW_ASSIGN /\ \A j \in 1..(k - 1) : SubSeq(l, j, j + 1) # KW_ASSIGN
TargetOf(l) == SplitOn(SubSeq(l, 1, ArrowAt(l) - 1), {" ", "\t"})
ExpressionOf(l) == From(l, ArrowAt(l) + 2)

\* The arguments of a call as written: the text between the first "(" and the
\* last ")", split at the commas.
ArgumentsOf(l) ==
  LET open == CHOOSE k \in 1..Len(l) : l[k] = "(" /\ \A j \in 1..(k - 1) : l[j] # "("
      close == CHOOSE k \in 1..Len(l) : l[k] = ")" /\ \A j \in (k + 1)..Len(l) : l[j] # ")"
  IN SplitOn(SubSeq(l, open + 1, close - 1), {","})

LexicalClass(text) == IF \E i \in 1..Len(text) : text[i] = "." THEN "double" ELSE "int"

\* A body line that is not indented with exactly one tab: two tabs, or spaces.
BadIndentLine(src, i) ==
  /\ i > 1
  /\ InFunctionBlock(src, i - 1)
  /\ (HasPrefix(src[i], <<"\t", "\t">>) \/ HasPrefix(src[i], <<" ">>))

Elements(q) == {q[i] : i \in 1..Len(q)}

\* Everything written so far: the C file and the bodies of the functions.
AllWritten ==
  Elements(c_file)
    \cup UNION {Elements(functions[i].body) : i \in 1..Len(functions)}
    \cup UNION {Elements(cur[i].body) : i \in 1..Len(cur)}

(***************************************************************************)
(* The claims.                                                             *)
(***************************************************************************)
\* C1: every function header line, "function name(a, b)" or "function name a b",
\* is accepted, and the function it registers has the written name and exactly
\* the written parameter names (so no parenthesis or comma in a stored name).
C1_HeaderRegistered ==
  /\ err.fmt = "Invalid function definition: %s\n" => ~WellFormedHeader(err.args[1])
  /\ \A f \in Elements(functions) \cup Elements(cur) :
       \E i \in 1..Len(source) :
         /\ IsHeader(source[i])
         /\ f.name = WrittenName(source[i])
         /\ f.parameters = WrittenParameters(source[i])

\* C2: when the translation ends without a fatal error, the lines translated
\* into main are exactly the top-level statement lines (not comments, not in a
\* function block), in source order: none is dropped.
C2_MainInSourceOrder ==
  pc = "done" => main_lines = StatementLines(source, 1)

\* C3: when Pass 1 has finished, the global table holds the target of every
\* top-level assignment line, wherever the line stands.
C3_GlobalsRegistered ==
  pc = "second_pass" =>
    \A i \in 1..Len(source) :
      IsTopLevelAssignment(source, i) =>
        \E g \in 1..Len(global_variables) :
          << global_variables[g].name >> = TargetOf(source[i])

\* C4: once Pass 1 has read a body line indented with two tabs or with spaces,
\* the run has ended in the fatal indentation error.
C4_BadIndentIsFatal ==
  \A i \in 1..Len(source) :
    BadIndentLine(source, i) =>
      \/ pc \in {"first_pass", "body"} /\ pos <= i
      \/ /\ pc = "error"
         /\ \/ pos <= i
            \/ err.fmt = "Invalid indentation in function '%s'. Line has spaces or multiple tabs.\n"

\* C5: neither variable table ever holds more than its 50 entries.
C5_TablesWithinCapacity ==
  /\ Len(global_variables) <= MAX_GLOBAL_VARS
  /\ Len(local_variables) <= MAX_IDENTIFIERS

\* C6: no identifier names both a registered function and a variable of the
\* global or the local table.
C6_NamespacesDisjoint ==
  \A f \in Elements(functions) :
    \A v \in Elements(global_variables) \cup Elements(local_variables) :
      f.name # v.name

\* C7: the global table holds each identifier at most once.
C7_GlobalsUnique ==
  \A i \in 1..Len(global_variables) : \A j \in 1..Len(global_variables) :
    i # j => global_variables[i].name # global_variables[j].name

\* C8: a source with a line of unbalanced parentheses never translates to the
\* end, and no such line is ever written out.
C8_UnbalancedIsFatal ==
  /\ pc = "done" => \A i \in 1..Len(source) : check_parentheses_balance(source[i])
  /\ \A c \in AllWritten :
       c.fmt = "%s;\n" => check_parentheses_balance(c.args[1])

C10_Step ==
  (pc \in {"first_pass", "body", "main_code"} /\ pos <= Len(source)) =>
    LET line == IF pc = "body" THEN Tail(source[pos]) ELSE source[pos] IN
    /\ Len(global_variables') > Len(global_variables) =>
         global_variables'[Len(global_variables')].type = LexicalClass(ExpressionOf(line))
    /\ Len(local_variables') > Len(local_variables) =>
         local_variables'[Len(local_variables')].type = LexicalClass(ExpressionOf(line))
    /\ \A i \in 1..Len(functions) :
         (Len(functions') >= i /\ functions'[i] # functions[i]) =>
           \A j \in 1..functions[i].parameter_count :
             j <= Len(ArgumentsOf(line)) =>
               functions'[i].parameter_types[j] = LexicalClass(ArgumentsOf(line)[j])
C10_LexicalTypes == [][C10_Step]_vars

\* C11: a step that reports a syntax error ends the run (exit with
\* EXIT_FAILURE), and from there no step is taken: no line is read, no table
\* changes, nothing is written, and compile and execute are not reached.
C11_Step ==
  /\ err'.type = "SYNTAX" => pc' = "error"
  /\ pc = "error" => UNCHANGED vars
C11_ErrorStops == [][C11_Step]_vars

\* C11: a run stopped by a syntax error in Pass 2 with output already written
\* and source lines still unread.
C11_StoppedMidway ==
  /\ pc = "error"
  /\ err.type = "SYNTAX"
  /\ pos <= Len(source)
  /\ c_file # << >>
  /\ command = << >>

\* The arguments after the source file are all numbers, and there is one at least.
Numerals == {"3", "4.5"}
NumericArguments ==
  Len(argv) >= 3 /\ \A i \in 3..Len(argv) : argv[i] \in Numerals

\* C12: a command line with numeric arguments after the source file is not
\* answered with the usage message, and the command that runs the generated
\* program carries the arguments in their order.
C12_NumericArgumentsForwarded ==
  NumericArguments =>
    /\ err.type # "USAGE"
    /\ pc \in {"clean_up", "success"} =>
         command = << "./ml_%d" >> \o SubSeq(argv, 3, Len(argv))

\* Line i is an assignment "x <- e" at top level, in a source with no function
\* definition and too few lines to fill a table, whose target x satisfies the
\* identifier rule and whose expression the validator accepts.
ValidAssignment(src, i) ==
  /\ \A k \in 1..Len(src) : ~IsHeader(src[k])
  /\ Len(src) <= MAX_GLOBAL_VARS
  /\ Contains(src[i], KW_ASSIGN)
  /\ ~IsComment(src[i])
  /\ check_parentheses_balance(src[i])
  /\ Len(TargetOf(src[i])) = 1
  /\ IdentifierRule(TargetOf(src[i])[1])
  /\ ~IsError(parse_expression(ExpressionOf(src[i])).err)

\* C13: an assignment whose target satisfies the identifier rule, of 12
\* characters included, raises no syntax error; Pass 1 registers the target
\* under its full name and Pass 2 passes the line on to be emitted.
C13_ValidTargetAccepted ==
  \A i \in 1..Len(source) :
    ValidAssignment(source, i) =>
      /\ ~(pc = "error" /\ pos = i + 1)
      /\ (pc = "first_pass" /\ pos > i) =>
           \E g \in 1..Len(global_variables) :
             << global_variables[g].name >> = TargetOf(source[i])
      /\ (pc = "main_code" /\ pos > i) => i \in Elements(main_lines)

\* The text with " * " for each "*" and " / " for each "/".
RECURSIVE Replaced(_)
Replaced(text) ==
  IF text = << >> THEN << >>
  ELSE (IF text[1] = "*" THEN <<" ", "*", " ">>
        ELSE IF text[1] = "/" THEN <<" ", "/", " ">>
        ELSE << text[1] >>) \o Replaced(Tail(text))

\* The characters one fprintf of the expression translator writes.
Written1(chunk) ==
  IF chunk.fmt = "%s" THEN chunk.args[1]
  ELSE IF chunk.fmt = " * " THEN <<" ", "*", " ">>
  ELSE <<" ", "/", " ">>
RECURSIVE Flat(_)
Flat(chunks) ==
  IF chunks = << >> THEN << >> ELSE Written1(chunks[1]) \o Flat(Tail(chunks))

\* What the validator is said to accept.
AcceptedExpression(text) ==
  /\ check_parentheses_balance(text)
  /\ \A i \in 1..Len(text) :
       text[i] \in Lower \cup Upper \cup Digit \cup {"+", "-", "*", "/", "(", ")", ",", ".", " "}

\* C14: parse_expression accepts exactly the balanced expressions over the
\* allowed characters, and what it writes for one is the input with " * " for
\* each "*" and " / " for each "/", everything else copied in order.
C14_OperatorsSpaced ==
  pc = "translated" =>
    /\ IsError(ret.err) <=> ~AcceptedExpression(arg)
    /\ ~IsError(ret.err) => Flat(ret.out) = Replaced(arg)

\* C14: an accepted expression with a product, a quotient and parentheses has
\* been translated.
C14_TranslatedMixed ==
  /\ pc = "translated"
  /\ ~IsError(ret.err)
  /\ \E i, j, k \in 1..Len(arg) : arg[i] = "*" /\ arg[j] = "/" /\ arg[k] = "("

\* The text before the first "(" of a line.
CalledName(l) ==
  SubSeq(l, 1, (CHOOSE k \in 1..Len(l) : l[k] = "(" /\ \A j \in 1..(k - 1) : l[j] # "(") - 1)

\* A bare call "f(a1, ..., ak)": an identifier, "(" right after it, and ")" at
\* the end of the line.
IsBareCall(l) ==
  /\ HasChar(l, "(")
  /\ l[Len(l)] = ")"
  /\ check_parentheses_balance(l)
  /\ ~Contains(l, KW_ASSIGN)
  /\ IdentifierRule(CalledName(l))

\* C15: when the main sequence processes a bare call f(a1, ..., ak) of a
\* registered function f, written with no space before "(", each parameter i
\* of f up to k gets the lexical class of argument ai, the parameters after the
\* k-th keep their types, and the return type is the type of the first
\* parameter.
C15_Step ==
  (/\ pc = "main_code"
   /\ pos <= Len(source)
   /\ main_lines' # main_lines
   /\ IsBareCall(source[pos])) =>
    \A f \in 1..Len(functions) :
      functions[f].name = CalledName(source[pos]) =>
        /\ \A j \in 1..functions[f].parameter_count :
             functions'[f].parameter_types[j] =
               IF j <= Len(ArgumentsOf(source[pos]))
               THEN LexicalClass(ArgumentsOf(source[pos])[j])
               ELSE functions[f].parameter_types[j]
        /\ functions[f].parameter_count > 0 =>
             functions'[f].return_type = functions'[f].parameter_types[1]
C15_CallTypesParameters == [][C15_Step]_vars

\* No call has typed the function: it is as store_function_definition_and_body
\* registered it.
Untyped(func) ==
  /\ func.return_type = "void"
  /\ \A j \in 1..func.parameter_count : func.parameter_types[j] = "unknown"

\* C16: when the prototypes and definitions are written, every function no call
\* has typed, a function with no parameter included, gets the return type
\* double and the type double for every parameter, in the table and in the
\* text written.
C16_Step ==
  (pc = "second_pass" /\ pc' = "main_code") =>
    \A i \in 1..Len(functions) :
      Untyped(functions[i]) =>
        /\ functions'[i].return_type = "double"
        /\ \A j \in 1..functions[i].parameter_count :
             functions'[i].parameter_types[j] = "double"
        /\ \A c \in Elements(c_file') :
             (c.fmt = "%s %s(" /\ c.args[2] = functions[i].name) => c.args[1] = "double"
C16_DefaultsToReal == [][C16_Step]_vars

\* In the text of one function body, each plain assignment "x = ..." comes
\* after a declaration "type x = ..." of the same body.
DeclaredBeforeUse(body) ==
  \A k \in 1..Len(body) :
    body[k].fmt = "%s = " =>
      \E d \in 1..(k - 1) :
        body[d].fmt = "%s %s = " /\ body[d].args[2] = body[k].args[1]

\* C17: with no global variable, every function body declares a name at its
\* first assignment in that body and assigns plainly only afterwards, whatever
\* an earlier function body assigned.
C17_LocalsScopedPerFunction ==
  global_variables = << >> =>
    \A f \in Elements(functions) \cup Elements(cur) : DeclaredBeforeUse(f.body)

\* C18: every name in a table satisfies the identifier rule: the name and the
\* parameter names of each registered function, and the name of each global
\* and local variable.
C18_StoredNamesValid ==
  /\ \A f \in Elements(functions) :
       /\ IdentifierRule(f.name)
       /\ \A j \in 1..Len(f.parameters) : IdentifierRule(f.parameters[j])
  /\ \A v \in Elements(global_variables) \cup Elements(local_variables) :
       IdentifierRule(v.name)

\* C19: when the process has ended, by exit from error_log or by return from
\* main, no stream the translator opened is left without its fclose.
C19_HandlesReleased ==
  pc \in {"error", "failure", "success"} => handles = {}

\* C20: in a source with no function definition, a line that starts with "#"
\* raises no syntax error, whatever follows the "#", and is not passed on to
\* be translated.
C20_CommentsIgnored ==
  (\A k \in 1..Len(source) : ~IsHeader(source[k])) =>
    \A i \in 1..Len(source) :
      IsComment(source[i]) =>
        /\ ~(pc = "error" /\ pos = i + 1)
        /\ i \notin Elements(main_lines)

=============================================================================
